---- MODULE Spec2Model ----
(***************************************************************************)
(* Model of torchdp/utils.py: replacement of sub-modules of a module tree. *)
(*                                                                         *)
(* A module tree is kept in a heap of module objects addressed by object   *)
(* identity (an index of `heap`).  Every object has a runtime type, the    *)
(* attributes the converters read or set, and `_modules`, the ordered      *)
(* mapping from child name to child object.  Names and dotted paths are    *)
(* sequences of one-character strings so that split(".") and the prefix    *)
(* concatenation of named_modules() are computed, not assumed.             *)
(***************************************************************************)
EXTENDS Integers, Sequences, FiniteSets, TLC

\* ---------------------------------------------------------------- bounds
MaxNodes == 4
MaxFeatures == 64

\* --------------------------------------------------------- class hierarchy
\* Direct base class of every class the model uses ("object" ends the chain).
Bases ==
  [ c \in {"Module", "Sequential", "_BatchNorm", "BatchNorm1d", "BatchNorm2d",
           "BatchNorm3d", "InstanceNorm1d", "InstanceNorm2d", "InstanceNorm3d",
           "GroupNorm", "Identity", "Block"} |->
      CASE c = "Module" -> "object"
        [] c \in {"BatchNorm1d", "BatchNorm2d", "BatchNorm3d"} -> "_BatchNorm"
        [] OTHER -> "Module" ]

RECURSIVE Mro(_)
Mro(c) == IF c = "object" THEN {"object"} ELSE {c} \cup Mro(Bases[c])

\* Variant: type(obj) is cls, without the subclasses.
isinstanceExact(type, cls) == type = cls

\* isinstance(obj, cls) on the runtime type of obj.
isinstance(type, cls) == cls \in Mro(type)

\* hasattr(module, "num_features")
HasNumFeatures(type) ==
  type \in {"_BatchNorm", "BatchNorm1d", "BatchNorm2d", "BatchNorm3d",
            "InstanceNorm1d", "InstanceNorm2d", "InstanceNorm3d"}

\* ------------------------------------------------------------ module objects
\* An attribute an object of that type does not have is 0 (FALSE for affine).
MkModule(type, nf, nc, ng, aff, mods) ==
  [type |-> type, num_features |-> nf, num_channels |-> nc, num_groups |-> ng,
   affine |-> aff, _modules |-> mods]

\* Index of `name` in an ordered name -> child mapping, 0 when absent.
Find(mods, name) ==
  IF \E i \in 1..Len(mods) : mods[i][1] = name
    THEN CHOOSE i \in 1..Len(mods) : mods[i][1] = name
    ELSE 0

\* prefix + ("." if prefix else "") + name
JoinPrefix(prefix, name) ==
  IF prefix = <<>> THEN name ELSE prefix \o <<".">> \o name

\* str.split("."): "" splits into [""], "a.b" into ["a", "b"].
RECURSIVE Split(_)
Split(s) ==
  IF \E i \in 1..Len(s) : s[i] = "."
    THEN LET i == CHOOSE k \in 1..Len(s) :
                    s[k] = "." /\ \A j \in 1..(k - 1) : s[j] # "."
         IN <<SubSeq(s, 1, i - 1)>> \o Split(SubSeq(s, i + 1, Len(s)))
    ELSE <<s>>

\* ---------------------------------------------------------------- converters
\* The result of a call: err = "" and the heap with the new object `out`
\* appended, or the exception raised and the heap as it was.
Raised(e, h) == [err |-> e, heap |-> h, out |-> 0]
Built(h, obj) == [err |-> "", heap |-> Append(h, obj), out |-> Len(h) + 1]

DefaultGroups == 32

Min(a, b) == IF a < b THEN a ELSE b

\* matchDim() of batchnorm_to_instancenorm: the class chosen by the input's
\* type, None when no branch is taken.
matchDim(type) ==
  IF isinstance(type, "BatchNorm1d") THEN "InstanceNorm1d"
  ELSE IF isinstance(type, "BatchNorm2d") THEN "InstanceNorm2d"
  ELSE IF isinstance(type, "BatchNorm3d") THEN "InstanceNorm3d"
  ELSE "None"

\* matchDim()(module.num_features): the callee is evaluated first, then the
\* argument (AttributeError without num_features), then the call (TypeError
\* when the callee is None).
batchnorm_to_instancenorm(h, m) ==
  LET cls == matchDim(h[m].type) IN
  IF ~HasNumFeatures(h[m].type) THEN Raised("AttributeError", h)
  ELSE IF cls = "None" THEN Raised("TypeError", h)
  ELSE Built(h, MkModule(cls, h[m].num_features, 0, 0, FALSE, <<>>))

\* Variant: always 32 groups.
batchnorm_to_groupnorm_fixed_groups(h, m) ==
  IF ~HasNumFeatures(h[m].type) THEN Raised("AttributeError", h)
  ELSE Built(h, MkModule("GroupNorm", 0, h[m].num_features, DefaultGroups,
                         FALSE, <<>>))

\* nn.GroupNorm(min(32, module.num_features), module.num_features, affine=False)
batchnorm_to_groupnorm(h, m) ==
  IF ~HasNumFeatures(h[m].type) THEN Raised("AttributeError", h)
  ELSE Built(h, MkModule("GroupNorm", 0, h[m].num_features,
                         Min(DefaultGroups, h[m].num_features), FALSE, <<>>))

\* lambda _: nn.Identity()
to_identity(h, m) == Built(h, MkModule("Identity", 0, 0, 0, FALSE, <<>>))

\* A caller's converter that builds a new container and registers the
\* input's children in it under their names.
to_block_sharing(h, m) ==
  Built(h, MkModule("Block", 0, 0, 0, FALSE, h[m]._modules))

\* A caller's converter that builds a new container with sub-modules of its
\* own: one new childless object per child of the input, of the child's type
\* and under the child's name.
to_block_rebuilt(h, m) ==
  LET mods == h[m]._modules
      n == Len(mods)
      copy(i) == [h[mods[i][2]] EXCEPT !._modules = <<>>]
      h1 == h \o [i \in 1..n |-> copy(i)]
  IN Built(h1, MkModule("Block", 0, 0, 0, FALSE,
                        [i \in 1..n |-> <<mods[i][1], Len(h) + i>>]))

\* The converters of the model.  Each builds a new object; none returns its
\* input or an object that holds its input.
Converters == {"batchnorm_to_instancenorm", "batchnorm_to_groupnorm",
               "to_identity", "to_block_sharing", "to_block_rebuilt"}

\* converter(module)
Convert(cv, h, m) ==
  CASE cv = "batchnorm_to_instancenorm" -> batchnorm_to_instancenorm(h, m)
    [] cv = "batchnorm_to_groupnorm" -> batchnorm_to_groupnorm(h, m)
    [] cv = "to_identity" -> to_identity(h, m)
    [] cv = "to_block_sharing" -> to_block_sharing(h, m)
    [] cv = "to_block_rebuilt" -> to_block_rebuilt(h, m)

\* ------------------------------------------------------------ _replace_child
\* for name in nameList[:-1]: parent = parent._modules[name]
\* The object reached, 0 when a name is no key of the mapping (KeyError).
RECURSIVE WalkParents(_, _, _)
WalkParents(h, parent, names) ==
  IF names = <<>> THEN parent
  ELSE LET i == Find(h[parent]._modules, Head(names)) IN
       IF i = 0 THEN 0
       ELSE WalkParents(h, h[parent]._modules[i][2], Tail(names))

\* Variant: the converted module is not stored.
SetChildNoStore(h, parent, i, new) == h

\* Variant: the converted module is stored in the first entry of the mapping.
SetChildFirstSlot(h, parent, i, new) ==
  [h EXCEPT ![parent]._modules[1] = <<h[parent]._modules[i][1], new>>]

\* parent._modules[name] = new, for the key at position i of the mapping
SetChild(h, parent, i, new) ==
  [h EXCEPT ![parent]._modules[i] = <<h[parent]._modules[i][1], new>>]

\* _replace_child(root, child_name, converter): the exception raised ("" for
\* none), the heap afterwards, the object handed to the converter and the
\* object the converter returned (0 when it was not reached).
_replace_child(h, root, child_name, cv) ==
  LET nameList == Split(child_name)
      last == nameList[Len(nameList)]
      parent == WalkParents(h, root, SubSeq(nameList, 1, Len(nameList) - 1))
      i == IF parent = 0 THEN 0 ELSE Find(h[parent]._modules, last)
  IN IF i = 0
       THEN [err |-> "KeyError", heap |-> h, arg |-> 0, out |-> 0]
       ELSE LET child == h[parent]._modules[i][2]
                c == Convert(cv, h, child)
            IN IF c.err # ""
                 THEN [err |-> c.err, heap |-> h, arg |-> child, out |-> 0]
                 ELSE [err |-> "", heap |-> SetChild(c.heap, parent, i, c.out),
                       arg |-> child, out |-> c.out]

\* --------------------------------------------------------------------- state
VARIABLES
  heap,       \* the module objects, by identity
  root,       \* the module passed to the call
  pc,         \* "idle", "loop" (inside the for loop), "returned", "raised"
  target,     \* target_class of the call
  converter,  \* converter of the call
  stack,      \* the frames of the suspended named_modules() generators
  memo,       \* the memo set of named_modules()
  result,     \* the returned module, 0 before the call returns
  err,        \* the exception that ended the call, "" for none
  op,         \* the entry point of the call
  again,      \* the call was made on the result of an earlier call
  heap0,      \* history: the heap when the call began
  yields,     \* history: the (name, obj) pairs the generator produced
  calls       \* history: the converter calls, in order

vars == <<heap, root, pc, target, converter, stack, memo, result, err, op,
          again, heap0, yields, calls>>

Targets == {"_BatchNorm", "BatchNorm2d", "Sequential"}

\* The modules a tree is built from: nn.Sequential(), a _BatchNorm(8) whose
\* type is none of the three ranks, nn.BatchNorm2d(64).
NodeKinds ==
  { MkModule("Sequential", 0, 0, 0, FALSE, <<>>),
    MkModule("_BatchNorm", 8, 0, 0, TRUE, <<>>),
    MkModule("BatchNorm2d", 64, 0, 0, TRUE, <<>>) }

\* Child names: "a", "bb", "bc", ... by position in the parent's mapping.
Letters == <<"a", "b", "c", "d", "e", "f">>
ChildName(i) == IF i = 1 THEN <<"a">> ELSE <<"b", Letters[i]>>

RECURSIVE AncOrSelf(_, _)
AncOrSelf(par, i) == IF i = 0 THEN {} ELSE {i} \cup AncOrSelf(par, par[i])

\* The trees of n nodes, as parent arrays numbered in pre-order (node 1 is
\* the root; a node is attached to the previous node or one of its ancestors).
TreeShapes(n) ==
  { par \in [1..n -> 0..(n - 1)] :
      /\ par[1] = 0
      /\ \A i \in 2..n : par[i] \in AncOrSelf(par, i - 1) }

ChildrenOf(par, n, k) ==
  SelectSeq([i \in 1..n |-> i], LAMBDA i : par[i] = k)

BuildHeap(n, par, kind) ==
  [k \in 1..n |->
     LET ch == ChildrenOf(par, n, k) IN
     [kind[k] EXCEPT !._modules =
        [j \in 1..Len(ch) |-> <<ChildName(j), ch[j]>>]]]

Idle(h) ==
  /\ heap = h /\ root = 1 /\ pc = "idle"
  /\ target = "" /\ converter = "" /\ stack = <<>> /\ memo = {}
  /\ result = 0 /\ err = "" /\ op = "" /\ again = FALSE
  /\ heap0 = h /\ yields = <<>> /\ calls = <<>>

Init ==
  \E n \in 1..MaxNodes : \E par \in TreeShapes(n) :
    \E kind \in [1..n -> NodeKinds] : Idle(BuildHeap(n, par, kind))

\* ----------------------------------------------------------- named_modules()
\* One next() of root.named_modules(): the generator yields (prefix, self)
\* for a module not in memo, then for each (name, module) of self._modules
\* what module.named_modules(memo, prefix + "." + name) yields.  A frame is
\* a suspended generator: its module, the number of items of its mapping
\* already taken, its prefix.  The mapping is read when the item is taken.
RECURSIVE GenNext(_, _, _, _)
GenNext(h, r, st, mm) ==
  IF st = <<>>
    THEN IF r \in mm
           THEN [done |-> TRUE, stack |-> st, memo |-> mm, name |-> <<>>, obj |-> 0]
           ELSE [done |-> FALSE, memo |-> mm \cup {r}, name |-> <<>>, obj |-> r,
                 stack |-> <<[node |-> r, idx |-> 0, prefix |-> <<>>]>>]
    ELSE LET f == st[Len(st)]
             mods == h[f.node]._modules
         IN IF f.idx < Len(mods)
              THEN LET e == mods[f.idx + 1]
                       st1 == [st EXCEPT ![Len(st)].idx = f.idx + 1]
                       sub == JoinPrefix(f.prefix, e[1])
                   IN IF e[2] \in mm
                        THEN GenNext(h, r, st1, mm)
                        ELSE [done |-> FALSE, memo |-> mm \cup {e[2]},
                              name |-> sub, obj |-> e[2],
                              stack |-> Append(st1, [node |-> e[2], idx |-> 0,
                                                     prefix |-> sub])]
              ELSE IF Len(st) = 1
                     THEN [done |-> TRUE, stack |-> <<>>, memo |-> mm,
                           name |-> <<>>, obj |-> 0]
                     ELSE GenNext(h, r, SubSeq(st, 1, Len(st) - 1), mm)

\* ------------------------------------------------------ replace_all_modules
\* Variant: no base case, the loop is entered whatever the root is.
replace_all_modules_no_base_case(r, target_class, cv) ==
  /\ root' = r /\ target' = target_class /\ converter' = cv
  /\ heap0' = heap /\ yields' = <<>> /\ stack' = <<>> /\ memo' = {}
  /\ pc' = "loop" /\ heap' = heap /\ err' = "" /\ result' = 0 /\ calls' = <<>>

\* The call up to the for loop: the base case returns converter(root).
replace_all_modules(r, target_class, cv) ==
  /\ root' = r /\ target' = target_class /\ converter' = cv
  /\ heap0' = heap /\ yields' = <<>> /\ stack' = <<>> /\ memo' = {}
  /\ IF isinstance(heap[r].type, target_class)
       THEN LET c == Convert(cv, heap, r) IN
            /\ heap' = c.heap /\ err' = c.err /\ result' = c.out
            /\ pc' = IF c.err = "" THEN "returned" ELSE "raised"
            /\ calls' = <<[obj |-> r, arg |-> r, out |-> c.out]>>
       ELSE /\ pc' = "loop" /\ heap' = heap /\ err' = "" /\ result' = 0
            /\ calls' = <<>>

\* One iteration of `for name, obj in root.named_modules()`, or the end of
\* the loop and `return root`.  An exception leaves the loop and the call.
Iterate(swallow) ==
  /\ pc = "loop"
  /\ LET g == GenNext(heap, root, stack, memo) IN
     /\ stack' = g.stack /\ memo' = g.memo
     /\ IF g.done
          THEN /\ pc' = "returned" /\ result' = root
               /\ UNCHANGED <<heap, err, yields, calls>>
          ELSE /\ yields' = Append(yields, <<g.name, g.obj>>)
               /\ IF isinstance(heap[g.obj].type, target)
                    THEN LET c == _replace_child(heap, root, g.name, converter) IN
                         /\ heap' = c.heap
                         /\ err' = IF swallow THEN "" ELSE c.err
                         /\ pc' = IF c.err = "" \/ swallow THEN "loop" ELSE "raised"
                         /\ calls' = IF c.arg = 0 THEN calls
                                     ELSE Append(calls, [obj |-> g.obj,
                                                         arg |-> c.arg,
                                                         out |-> c.out])
                    ELSE UNCHANGED <<heap, err, pc, calls>>
               /\ UNCHANGED result
  /\ UNCHANGED <<root, target, converter, op, again, heap0>>

\* Variant: an exception of an iteration is dropped and the loop goes on.
LoopIterSwallow == Iterate(TRUE)

LoopIter == Iterate(FALSE)

\* Variant: the target_class argument is passed on.
nullify_using_target_class(r, target_class) ==
  replace_all_modules(r, target_class, "to_identity")

\* nullify_batchnorm_modules(root, target_class): target_class is not used.
nullify_batchnorm_modules(r, target_class) ==
  replace_all_modules(r, "_BatchNorm", "to_identity")

\* replace_batchnorm(model)
replace_batchnorm(model) ==
  replace_all_modules(model, "_BatchNorm", "batchnorm_to_groupnorm")

CallReplaceAll ==
  /\ pc = "idle"
  /\ \E t \in Targets : \E cv \in Converters : replace_all_modules(root, t, cv)
  /\ op' = "replace_all_modules" /\ again' = FALSE

CallNullify ==
  /\ pc = "idle"
  /\ \E t \in Targets : nullify_batchnorm_modules(root, t)
  /\ op' = "nullify_batchnorm_modules" /\ again' = FALSE

CallReplaceBatchnorm ==
  /\ pc = "idle"
  /\ replace_batchnorm(root)
  /\ op' = "replace_batchnorm" /\ again' = FALSE

\* The caller passes the module a nullify call returned to nullify again.
CallNullifyAgain ==
  /\ pc = "returned" /\ op = "nullify_batchnorm_modules"
  /\ \E t \in Targets : nullify_batchnorm_modules(result, t)
  /\ op' = "nullify_batchnorm_modules" /\ again' = TRUE

\* One call of one of the three entry points on a tree.
Next == CallReplaceAll \/ CallNullify \/ CallReplaceBatchnorm \/ LoopIter

Spec == Init /\ [][Next]_vars

\* nullify_batchnorm_modules, called again and again on what it returned.
NextNullify == CallNullify \/ CallNullifyAgain \/ LoopIter

SpecNullify == Init /\ [][NextNullify]_vars

\* ----------------------------------------------- the converters on their own
BatchNormTypes == {"_BatchNorm", "BatchNorm1d", "BatchNorm2d", "BatchNorm3d"}

InitConv ==
  \E t \in BatchNormTypes : \E nf \in 1..MaxFeatures :
    Idle(<<MkModule(t, nf, 0, 0, TRUE, <<>>)>>)

\* converter(module), called directly on a batch-normalization module.
Apply(cv) ==
  /\ pc = "idle"
  /\ LET c == Convert(cv, heap, root) IN
     /\ heap' = c.heap /\ err' = c.err /\ result' = c.out
     /\ pc' = IF c.err = "" THEN "returned" ELSE "raised"
     /\ calls' = <<[obj |-> root, arg |-> root, out |-> c.out]>>
  /\ converter' = cv /\ op' = cv
  /\ UNCHANGED <<root, target, stack, memo, again, heap0, yields>>

ApplyGroupnorm == Apply("batchnorm_to_groupnorm")

ApplyInstancenorm == Apply("batchnorm_to_instancenorm")

NextConv == ApplyGroupnorm \/ ApplyInstancenorm

SpecConv == InitConv /\ [][NextConv]_vars

\* ================================================================ properties
\* The vocabulary of the properties, defined on the heaps and the history
\* alone: the subclass relation written out, the tree as a pre-order list of
\* (path, object, ancestors), the object at a path.
IsA(type, cls) ==
  \/ type = cls
  \/ cls = "Module"
  \/ cls = "_BatchNorm" /\ type \in {"BatchNorm1d", "BatchNorm2d", "BatchNorm3d"}

RECURSIVE Preorder(_, _, _, _)
RECURSIVE PreorderKids(_, _, _, _, _)
Preorder(h, n, path, anc) ==
  <<[path |-> path, obj |-> n, anc |-> anc]>>
    \o PreorderKids(h, n, path, anc \cup {n}, 1)
PreorderKids(h, n, path, anc, i) ==
  IF i > Len(h[n]._modules) THEN <<>>
  ELSE Preorder(h, h[n]._modules[i][2], Append(path, h[n]._modules[i][1]), anc)
         \o PreorderKids(h, n, path, anc, i + 1)

RECURSIVE NodeAt(_, _, _)
NodeAt(h, n, path) ==
  IF path = <<>> THEN n
  ELSE LET S == {i \in 1..Len(h[n]._modules) : h[n]._modules[i][1] = Head(path)}
       IN IF S = {} THEN 0
          ELSE NodeAt(h, h[n]._modules[CHOOSE i \in S : TRUE][2], Tail(path))

\* The tree the call was given, and its matching descendants in traversal order.
Tree0 == Preorder(heap0, root, <<>>, {})
IsMatch0(e) == IsA(heap0[e.obj].type, target)
Matches0 == SelectSeq(Tail(Tree0), IsMatch0)
RootMatched == IsA(heap0[root].type, target)
Fresh(n) == n > Len(heap0)
Selected(n) == \E i \in DOMAIN calls : calls[i].obj = n
InReplaceAll ==
  op \in {"replace_all_modules", "nullify_batchnorm_modules", "replace_batchnorm"}

\* C1: when the root is not of the target type and the call has returned,
\* every descendant of the target type at path p of the tree the call was
\* given has, at path p, the object the converter returned when it was called
\* with that descendant.
C1_EveryMatchConverted ==
  (InReplaceAll /\ pc = "returned" /\ ~RootMatched) =>
    \A k \in DOMAIN Matches0 :
      LET n == NodeAt(heap, root, Matches0[k].path) IN
      /\ n # 0 /\ Fresh(n)
      /\ \E i \in DOMAIN calls :
           calls[i].out = n /\ calls[i].arg = Matches0[k].obj

\* C2: when the root is not of the target type, no object of the given tree
\* changes except in the child entries whose child is of the target type:
\* every other link keeps its name, its child and its position; the value
\* returned is the root passed in; and with no object of the target type in
\* the tree the heap is untouched and the converter is never called.
C2_OnlyMatchedLinksChange ==
  (InReplaceAll /\ ~RootMatched) =>
    /\ \A n \in DOMAIN heap0 :
         /\ [heap[n] EXCEPT !._modules = <<>>] = [heap0[n] EXCEPT !._modules = <<>>]
         /\ Len(heap[n]._modules) = Len(heap0[n]._modules)
         /\ \A i \in DOMAIN heap0[n]._modules :
              /\ heap[n]._modules[i][1] = heap0[n]._modules[i][1]
              /\ ~IsA(heap0[heap0[n]._modules[i][2]].type, target)
                   => heap[n]._modules[i] = heap0[n]._modules[i]
    /\ pc = "returned" => result = root
    /\ Matches0 = <<>> => heap = heap0 /\ calls = <<>> /\ pc # "raised"

C2_Witness ==
  /\ InReplaceAll /\ pc = "returned" /\ ~RootMatched
  /\ Len(calls) >= 2
  /\ \E k \in 2..Len(Tree0) :
       /\ ~IsMatch0(Tree0[k])
       /\ NodeAt(heap, root, Tree0[k].path) = Tree0[k].obj

C6_GroupNorm ==
  (op = "batchnorm_to_groupnorm") =>
    /\ pc = "returned" /\ err = ""
    /\ Fresh(result) /\ heap[root] = heap0[root]
    /\ LET c == heap0[root].num_features
           g == heap[result]
       IN /\ c >= 1
          /\ g.type = "GroupNorm" /\ g.num_channels = c /\ g.affine = FALSE
          /\ g._modules = <<>>
          /\ c <= 32 => g.num_groups = c
          /\ c >= 32 => g.num_groups = 32

C6_Witness ==
  /\ op = "batchnorm_to_groupnorm" /\ pc = "returned"
  /\ heap0[root].num_features = 64 /\ heap[result].num_groups = 32
  /\ heap0[root].affine

\* C7: nullify_batchnorm_modules leaves no object of type _BatchNorm or a
\* subtype reachable from what it returns, and called again on that result
\* it calls the converter zero times, changes nothing and returns the same
\* object.
C7_NullifyIdempotent ==
  /\ (op = "nullify_batchnorm_modules" /\ pc = "returned") =>
       LET now == Preorder(heap, result, <<>>, {}) IN
       \A k \in DOMAIN now : ~IsA(heap[now[k].obj].type, "_BatchNorm")
  /\ (op = "nullify_batchnorm_modules" /\ again) =>
       /\ pc \in {"loop", "returned"}
       /\ calls = <<>> /\ heap = heap0 /\ err = ""
       /\ pc = "returned" => result = root

C7_Witness ==
  /\ op = "nullify_batchnorm_modules" /\ again /\ pc = "returned"
  /\ Len(yields) >= 3
  /\ \E n \in DOMAIN heap : IsA(heap[n].type, "_BatchNorm")
  /\ \E k \in DOMAIN yields : heap[yields[k][2]].type = "Identity"

\* C8: a converter call that fails is the last event of the call: the
\* exception ends the call, the matches before it in traversal order hold
\* what the converter returned for them, the failing match and every later
\* match still hold their original objects.
C8_NoRollback ==
  InReplaceAll =>
    /\ \A i \in DOMAIN calls :
         calls[i].out = 0 =>
           i = Len(calls) /\ pc = "raised" /\ err \in {"AttributeError", "TypeError"}
    /\ (pc = "raised" /\ err # "KeyError" /\ ~RootMatched) =>
         LET k == Len(calls) IN
         /\ k >= 1 /\ k <= Len(Matches0) /\ calls[k].out = 0
         /\ \A i \in 1..k :
              calls[i].obj = Matches0[i].obj /\ calls[i].arg = Matches0[i].obj
         /\ \A i \in 1..(k - 1) :
              /\ calls[i].out # 0
              /\ NodeAt(heap, root, Matches0[i].path) = calls[i].out
         /\ \A i \in k..Len(Matches0) :
              NodeAt(heap, root, Matches0[i].path) = Matches0[i].obj

C8_Witness ==
  /\ InReplaceAll /\ pc = "raised" /\ err = "TypeError" /\ ~RootMatched
  /\ Len(calls) = 2 /\ Len(Matches0) = 3
  /\ heap[NodeAt(heap, root, Matches0[1].path)].type = "InstanceNorm2d"

\* C9: with a converter that never fails, no path the enumeration produced
\* for a matching descendant fails to resolve: the call never ends in the
\* lookup failure.
C9_NoLookupFailure ==
  (InReplaceAll
     /\ converter \in {"to_identity", "to_block_sharing", "to_block_rebuilt"}) =>
    ~(pc = "raised" /\ err = "KeyError")

\* C10: every converter call receives the object the enumeration matched, an
\* object of the given tree, and no object is passed to the converter twice.
C10_ConverterGetsEnumerated ==
  InReplaceAll =>
    \A i \in DOMAIN calls :
      /\ calls[i].arg = calls[i].obj
      /\ ~Fresh(calls[i].arg)
      /\ \A j \in DOMAIN calls : calls[j].arg = calls[i].arg => j = i

====
